---------------------------- MODULE Spec2Model ----------------------------
(***************************************************************************)
(* A model of falafel/mappers/fstab.py: the FSTab mapper, which parses the *)
(* active lines of /etc/fstab under the fixed heading line FS_HEADINGS,    *)
(* normalises the integer and option columns, and builds the rows and the  *)
(* mount-point index.                                                      *)
(*                                                                         *)
(* Text is modelled as a sequence of one-character strings, so that        *)
(* offsets, trimming, splitting and integer conversion are computed, not   *)
(* assumed.  A Python dict is a function whose domain is its key set; the  *)
(* keys (column names, option names, attribute names) are texts.           *)
(*                                                                         *)
(* parse_table, get_active_lines and optlist_to_dict are imported by the   *)
(* mapper (fstab.py lines 75-76) from modules that are not part of the     *)
(* sources at hand; they are modelled from the written specification       *)
(* (sections 2, 4.1 and 4.2).                                              *)
(***************************************************************************)
EXTENDS Integers, Sequences, FiniteSets, TLC

VARIABLES
    content,     \* the raw lines handed to parse_content
    pc,          \* "init" before the call, then "done" or "raised"
    err,         \* the exception that ended the call, "" if none
    attrs,       \* the instance attributes parse_content has assigned
    data,        \* self.data: the list of row dicts
    rows,        \* self.rows: the list of FSTabEntry objects
    mounted_on,  \* self.mounted_on: fs_file -> position in rows of the entry
    length,      \* the last value returned by len(fstab), -1 before any call
    optstr,      \* the option string handed to the option-list decoder
    optmap,      \* the decoder's result for optstr
    decoded,     \* TRUE once the decoder has run on optstr
    m,           \* an option map to encode, as a sequence of <<key, value>>
    enc,         \* the encoded text of m
    rt,          \* the option map decoded from enc
    rtdone       \* TRUE once the round trip has run

vars == <<content, pc, err, attrs, data, rows, mounted_on, length,
          optstr, optmap, decoded, m, enc, rt, rtdone>>

parseVars == <<content, pc, err, attrs, data, rows, mounted_on, length>>
decodeVars == <<optstr, optmap, decoded>>
tripVars == <<m, enc, rt, rtdone>>

----------------------------------------------------------------------------
(* Bounds of the model.                                                    *)

MaxLines == 2        \* the longest content, in lines
MaxOptLen == 5       \* the longest option string the decoder is run on
MaxEntries == 2      \* the largest option map that is encoded

----------------------------------------------------------------------------
(* Text.                                                                   *)

IsSpace(c) == c = " "

RECURSIVE LStrip(_)
LStrip(s) == IF Len(s) > 0 /\ IsSpace(s[1]) THEN LStrip(Tail(s)) ELSE s

RECURSIVE RStrip(_)
RStrip(s) ==
    IF Len(s) > 0 /\ IsSpace(s[Len(s)])
    THEN RStrip(SubSeq(s, 1, Len(s) - 1))
    ELSE s

Strip(s) == LStrip(RStrip(s))

\* The positions of sep in s, in increasing order of position.
Positions(s, sep) == {p \in 1..Len(s) : s[p] = sep}

\* str.split(sep): the pieces of s between the occurrences of sep; the
\* empty text splits into one empty piece.
RECURSIVE Split(_, _)
Split(s, sep) ==
    IF Positions(s, sep) = {}
    THEN <<s>>
    ELSE LET p == CHOOSE q \in Positions(s, sep) :
                      \A r \in Positions(s, sep) : q <= r
         IN  <<SubSeq(s, 1, p - 1)>> \o Split(SubSeq(s, p + 1, Len(s)), sep)

\* An empty dict.
EmptyMap == [k \in {} |-> 0]

\* d[k] = v on a dict.
Put(d, k, v) == [x \in DOMAIN d \cup {k} |-> IF x = k THEN v ELSE d[x]]

----------------------------------------------------------------------------
(* Values held by option dicts and object attributes.                      *)

Bool(b) == [kind |-> "bool", b |-> b, s |-> <<>>, m |-> EmptyMap]
Str(s) == [kind |-> "str", b |-> FALSE, s |-> s, m |-> EmptyMap]
Dict(d) == [kind |-> "dict", b |-> FALSE, s |-> <<>>, m |-> d]

----------------------------------------------------------------------------
(* The names of the columns, of the well-known options and of the          *)
(* attribute MountOpts sets itself.                                        *)

fs_spec == <<"f", "s", "_", "s", "p", "e", "c">>
fs_file == <<"f", "s", "_", "f", "i", "l", "e">>
fs_vfstype == <<"f", "s", "_", "v", "f", "s", "t", "y", "p", "e">>
fs_mntops == <<"f", "s", "_", "m", "n", "t", "o", "p", "s">>
fs_freq == <<"f", "s", "_", "f", "r", "e", "q">>
fs_passno == <<"f", "s", "_", "p", "a", "s", "s", "n", "o">>

FS_HEADINGS == <<"f", "s", "_", "s", "p", "e", "c", " ", " ", " ", " ", " ", " ", " ", " ", " ", " ", " ", " ", " ", " ", " ", " ", " ", " ", " ", " ", " ", " ", " ", " ", " ", " ", " ", " ", " ", " ", " ", "f", "s", "_", "f", "i", "l", "e", " ", " ", " ", " ", " ", " ", " ", " ", " ", " ", " ", " ", " ", " ", " ", " ", " ", "f", "s", "_", "v", "f", "s", "t", "y", "p", "e", " ", "f", "s", "_", "m", "n", "t", "o", "p", "s", " ", " ", " ", " ", "f", "s", "_", "f", "r", "e", "q", " ", "f", "s", "_", "p", "a", "s", "s", "n", "o">>

\* MountOpts.type_infos: every entry is type_info(bool, False).
type_infos ==
    [k \in {<<"r", "w">>, <<"r", "q">>, <<"r", "o">>, <<"s", "w">>, <<"x", "x">>, <<"r", "e", "l", "a", "t", "i", "m", "e">>, <<"s", "e", "c", "l", "a", "b", "e", "l">>,
            <<"a", "t", "t", "r", "2">>, <<"i", "n", "o", "d", "e", "6", "4">>, <<"n", "o", "q", "u", "o", "t", "a">>} |-> Bool(FALSE)]

data_attr == <<"d", "a", "t", "a">>

----------------------------------------------------------------------------
(* The line filter (section 2, component 1): blank lines and full-line     *)
(* comments are dropped, the other lines are kept in order.                *)

IsActive(line) == Strip(line) # <<>> /\ Strip(line)[1] # "#"

get_active_lines(lines) == SelectSeq(lines, IsActive)

----------------------------------------------------------------------------
(* The positional table parser (section 4.2).                              *)

\* Step 1: the heading spec, the columns with their 0-based offsets.
TokenStarts(s) ==
    {p \in 1..Len(s) : ~IsSpace(s[p]) /\ (p = 1 \/ IsSpace(s[p - 1]))}

TokenEnd(s, p) ==
    CHOOSE q \in p..Len(s) :
        /\ \A r \in p..q : ~IsSpace(s[r])
        /\ (q = Len(s) \/ IsSpace(s[q + 1]))

RECURSIVE SortedSeq(_)
SortedSeq(S) ==
    IF S = {} THEN <<>>
    ELSE LET x == CHOOSE y \in S : \A z \in S : y <= z
         IN  <<x>> \o SortedSeq(S \ {x})

HeadingSpec(header) ==
    LET starts == SortedSeq(TokenStarts(header))
    IN  [j \in 1..Len(starts) |->
            [name |-> SubSeq(header, starts[j], TokenEnd(header, starts[j])),
             offset |-> starts[j] - 1]]

\* Steps 2 and 3: a column is present when the line reaches past its
\* offset; its value is the text from its offset up to the next column's
\* offset (to the end of the line for the last column), trimmed.
Field(spec, j, line) ==
    Strip(SubSeq(line, spec[j].offset + 1,
                 IF j = Len(spec) \/ Len(line) < spec[j + 1].offset
                 THEN Len(line) ELSE spec[j + 1].offset))

RawRow(spec, line) ==
    LET present == {j \in 1..Len(spec) : Len(line) > spec[j].offset}
    IN  [name \in {spec[j].name : j \in present} |->
            Field(spec, CHOOSE j \in present : spec[j].name = name, line)]

parse_table(table_lines) ==
    IF table_lines = <<>> THEN <<>>
    ELSE LET spec == HeadingSpec(table_lines[1])
         IN  [i \in 1..(Len(table_lines) - 1) |-> RawRow(spec, table_lines[i + 1])]


----------------------------------------------------------------------------
(* The option-list decoder (section 4.1).                                  *)

\* make_kv with 'key=value' split at its last '=' instead of its first.
make_kv_LastEq(opt) ==
    IF Positions(opt, "=") = {}
    THEN <<opt, Bool(TRUE)>>
    ELSE LET p == CHOOSE q \in Positions(opt, "=") :
                      \A r \in Positions(opt, "=") : q >= r
         IN  <<SubSeq(opt, 1, p - 1), Str(SubSeq(opt, p + 1, Len(opt)))>>

\* One token: 'key=value' is split at its first '=', a bare 'key' maps to
\* True.
make_kv(opt) ==
    IF Positions(opt, "=") = {}
    THEN <<opt, Bool(TRUE)>>
    ELSE LET p == CHOOSE q \in Positions(opt, "=") :
                      \A r \in Positions(opt, "=") : q <= r
         IN  <<SubSeq(opt, 1, p - 1), Str(SubSeq(opt, p + 1, Len(opt)))>>

\* dict(pairs) with the first pair of a key kept instead of the last.
RECURSIVE DictOf_FirstWins(_)
DictOf_FirstWins(pairs) ==
    IF pairs = <<>> THEN EmptyMap
    ELSE LET first == pairs[1]
         IN  Put(DictOf_FirstWins(Tail(pairs)), first[1], first[2])

\* dict(pairs): the pairs are stored in order, a later pair replacing an
\* earlier one with the same key.
RECURSIVE DictOf(_)
DictOf(pairs) ==
    IF pairs = <<>> THEN EmptyMap
    ELSE LET last == pairs[Len(pairs)]
         IN  Put(DictOf(SubSeq(pairs, 1, Len(pairs) - 1)), last[1], last[2])

optlist_to_dict(optlist) ==
    IF optlist = <<>> THEN EmptyMap
    ELSE LET opts == Split(optlist, ",")
         IN  DictOf([i \in 1..Len(opts) |-> make_kv(Strip(opts[i]))])

----------------------------------------------------------------------------
(* int(text), Python 2: surrounding whitespace is ignored, an optional     *)
(* sign is followed by one or more decimal digits; anything else raises    *)
(* ValueError.                                                             *)

Digits == <<"0", "1", "2", "3", "4", "5", "6", "7", "8", "9">>

IsDigit(c) == \E d \in 1..Len(Digits) : Digits[d] = c

DigitValue(c) == (CHOOSE d \in 1..Len(Digits) : Digits[d] = c) - 1

Unsigned(s) == IF Len(s) > 0 /\ s[1] \in {"+", "-"} THEN Tail(s) ELSE s

IsIntLiteral(s) ==
    LET body == Unsigned(Strip(s))
    IN  Len(body) > 0 /\ \A i \in 1..Len(body) : IsDigit(body[i])

RECURSIVE Horner(_, _)
Horner(acc, s) ==
    IF s = <<>> THEN acc ELSE Horner(acc * 10 + DigitValue(s[1]), Tail(s))

int(s) ==
    LET t == Strip(s)
    IN  IF Len(t) > 0 /\ t[1] = "-" THEN 0 - Horner(0, Unsigned(t))
        ELSE Horner(0, Unsigned(t))

----------------------------------------------------------------------------
(* MountOpts and FSTabEntry.                                               *)

\* MountOpts.__init__, first loop: the well-known options missing from the
\* dict are added to it with their default.  The dict is the one held by
\* the data row, so the row sees the additions.
MergeDefaults(d) ==
    [k \in DOMAIN d \cup DOMAIN type_infos |->
        IF k \in DOMAIN d THEN d[k] ELSE type_infos[k]]

\* The attributes of a MountOpts object: self.data is bound to the dict,
\* then every key of the dict is set as an attribute, 'data' included.
MountOpts(d) ==
    LET merged == MergeDefaults(d)
    IN  [k \in {data_attr} \cup DOMAIN merged |->
            IF k \in DOMAIN merged THEN merged[k] ELSE Dict(merged)]

\* The attributes of an FSTabEntry object.
FSTabEntry(datum) ==
    [k \in DOMAIN datum |->
        IF k = fs_mntops THEN MountOpts(datum[k]) ELSE datum[k]]

----------------------------------------------------------------------------
(* FSTab.parse_content.                                                    *)

\* IntColumn with an absent column defaulted to 1 instead of 0.
IntColumn_DefaultOne(line, col) ==
    IF col \in DOMAIN line THEN int(line[col]) ELSE 1

\* Lines 160-161: an integer column is converted if present, 0 if not.
\* Called only when the column is absent or holds an integer literal.
IntColumn(line, col) == IF col \in DOMAIN line THEN int(line[col]) ELSE 0

\* The exception the loop body raises on one line, "" if none.
LineError(line) ==
    IF fs_freq \in DOMAIN line /\ ~IsIntLiteral(line[fs_freq]) THEN "ValueError"
    ELSE IF fs_passno \in DOMAIN line /\ ~IsIntLiteral(line[fs_passno])
         THEN "ValueError"
    ELSE IF fs_mntops \notin DOMAIN line THEN "KeyError"
    ELSE ""

\* Lines 160-164 on one line that raises nothing.
NormalizeLine(line) ==
    Put(Put(Put(line, fs_freq, IntColumn(line, fs_freq)),
            fs_passno, IntColumn(line, fs_passno)),
        fs_mntops, optlist_to_dict(line[fs_mntops]))

\* Lines 159-164: the lines are handled in order; the first one to raise
\* ends the call.
FirstError(lines) ==
    IF \A i \in 1..Len(lines) : LineError(lines[i]) = "" THEN ""
    ELSE LineError(lines[CHOOSE i \in 1..Len(lines) :
                            /\ LineError(lines[i]) # ""
                            /\ \A j \in 1..(i - 1) : LineError(lines[j]) = ""])

\* MakeRows with the entries built in reverse order.
MakeRows_Reversed(d) == [i \in 1..Len(d) |-> FSTabEntry(d[Len(d) + 1 - i])]

\* Line 166: one FSTabEntry per datum, in order.
MakeRows(d) == [i \in 1..Len(d) |-> FSTabEntry(d[i])]

\* self.data once line 166 has run: building the MountOpts of a row adds
\* the defaults to the option dict of that row.
DataAfterRows(d) ==
    [i \in 1..Len(d) |-> Put(d[i], fs_mntops, MergeDefaults(d[i][fs_mntops]))]

\* MountedOn with the first row of a mount point kept instead of the last.
RECURSIVE MountedOn_FirstWins(_, _)
MountedOn_FirstWins(r, n) ==
    IF n = 0 THEN EmptyMap
    ELSE LET prev == MountedOn_FirstWins(r, n - 1)
         IN  IF r[n][fs_file] \in DOMAIN prev THEN prev
             ELSE Put(prev, r[n][fs_file], n)

\* Line 168: the dict comprehension stores the rows in order, a later row
\* replacing an earlier one with the same fs_file.  The values are the
\* row objects themselves, here their positions in rows.
RECURSIVE MountedOn(_, _)
MountedOn(r, n) ==
    IF n = 0 THEN EmptyMap ELSE Put(MountedOn(r, n - 1), r[n][fs_file], n)

ParseContent ==
    /\ pc = "init"
    /\ LET fstab_output == parse_table(<<FS_HEADINGS>> \o get_active_lines(content))
           raised == FirstError(fstab_output)
           d == [i \in 1..Len(fstab_output) |-> NormalizeLine(fstab_output[i])]
       IN  IF raised # ""
           THEN /\ pc' = "raised"
                /\ err' = raised
                /\ UNCHANGED <<attrs, data, rows, mounted_on>>
           ELSE IF \E i \in 1..Len(d) : fs_file \notin DOMAIN d[i]
           THEN /\ pc' = "raised"
                /\ err' = "AttributeError"
                /\ attrs' = {"data", "rows"}
                /\ data' = DataAfterRows(d)
                /\ rows' = MakeRows(d)
                /\ UNCHANGED mounted_on
           ELSE /\ pc' = "done"
                /\ attrs' = {"data", "rows", "mounted_on"}
                /\ data' = DataAfterRows(d)
                /\ rows' = MakeRows(d)
                /\ mounted_on' = MountedOn(MakeRows(d), Len(d))
                /\ UNCHANGED err
    /\ UNCHANGED <<content, length>>
    /\ UNCHANGED <<decodeVars, tripVars>>

\* FSTab.__len__, called once the rows exist.
CallLen ==
    /\ "rows" \in attrs
    /\ length = -1
    /\ length' = Len(rows)
    /\ UNCHANGED <<content, pc, err, attrs, data, rows, mounted_on>>
    /\ UNCHANGED <<decodeVars, tripVars>>

----------------------------------------------------------------------------
(* The contents parse_content is run on: up to MaxLines lines, each one of *)
(* the sample lines below.                                                 *)

Spaces(n) == [i \in 1..n |-> " "]

RECURSIVE Join(_, _)
Join(parts, sep) ==
    IF parts = <<>> THEN <<>>
    ELSE IF Len(parts) = 1 THEN parts[1]
    ELSE parts[1] \o sep \o Join(Tail(parts), sep)

\* The fields laid out under the columns of FS_HEADINGS.
RECURSIVE Aligned(_, _)
Aligned(fields, j) ==
    IF j > Len(fields) THEN <<>>
    ELSE LET spec == HeadingSpec(FS_HEADINGS)
             width == IF j = Len(spec) THEN Len(fields[j])
                      ELSE spec[j + 1].offset - spec[j].offset
         IN  fields[j] \o Spaces(width - Len(fields[j])) \o Aligned(fields, j + 1)

AlignedLine(fields) == RStrip(Aligned(fields, 1))

SampleLines ==
    { AlignedLine(<<<<"/", "d", "e", "v", "/", "s", "d", "a">>, <<"/">>, <<"x", "f", "s">>, <<"r", "w">>, <<"0">>, <<"0">>>>),
      AlignedLine(<<<<"/", "d", "e", "v", "/", "s", "d", "b">>, <<"/">>, <<"x", "f", "s">>, <<"r", "o", ",", "r", "w", "=", "1">>, <<"1">>, <<"2">>>>),
      AlignedLine(<<<<"/", "d", "e", "v", "/", "s", "d", "c">>, <<"/", "m">>, <<"e", "x", "t", "4">>, <<"d", "a", "t", "a", "=", "o", ",", "r", "o">>, <<"1", "2">>>>),
      AlignedLine(<<<<"/", "d", "e", "v", "/", "s", "d", "d">>, <<"/", "m">>, <<"n", "f", "s">>, <<"a", "=", "b", "=", "c", ",", "a">>>>),
      AlignedLine(<<<<"/", "d", "e", "v", "/", "s", "d", "e">>, <<"/", "n">>, <<"x", "f", "s">>>>),
      AlignedLine(<<<<"/", "d", "e", "v", "/", "s", "d", "f">>, <<"/">>, <<"x", "f", "s">>, <<"r", "w">>, <<"z">>, <<"0">>>>),
      AlignedLine(<<<<"/", "d", "e", "v", "/", "s", "d", "g">>, <<"/">>, <<"x", "f", "s">>, <<"r", "w">>, <<"0">>, <<"1", "x">>>>),
      AlignedLine(<<<<"/", "d", "e", "v", "/", "s", "d", "h">>, <<"/", "n">>, <<"x", "f", "s">>, <<>>, <<"0">>, <<"-", "1">>>>),
      <<"/", "d", "e", "v", "/", "s", "d", "d", "1", " ", "/", "h", "d", "f", "s", "/", "d", "a", "t", "a", "3", " ", "x", "f", "s", " ", "r", "w", ",", "r", "e", "l", "a", "t", "i", "m", "e", ",", "s", "e", "c", "l", "a", "b", "e", "l", ",", "a", "t", "t", "r", "2", ",", "i", "n", "o", "d", "e", "6", "4", ",", "n", "o", "q", "u", "o", "t", "a", " ", "0", " ", "0">>,
      <<"/", "d", "e", "v", "/", "m", "a", "p", "p", "e", "r", "/", "r", "h", "e", "l", "_", "h", "a", "d", "o", "o", "p", "-", "-", "t", "e", "s", "t", "-", "-", "1", "-", "r", "o", "o", "t", " ", "/", " ", " ", " ", " ", " ", " ", " ", " ", " ", " ", " ", " ", " ", " ", " ", " ", " ", " ", " ", " ", " ", " ", " ", "x", "f", "s", " ", " ", " ", " ", " ", "d", "e", "f", "a", "u", "l", "t", "s", " ", " ", " ", " ", " ", " ", " ", " ", "0", " ", "0">>,
      <<"#", " ", "/", "e", "t", "c", "/", "f", "s", "t", "a", "b">>,
      <<>> }

RECURSIVE SeqsUpTo(_, _)
SeqsUpTo(S, n) ==
    IF n = 0 THEN {<<>>}
    ELSE LET shorter == SeqsUpTo(S, n - 1)
         IN  shorter \cup {Append(q, x) : q \in shorter, x \in S}

Init ==
    /\ content \in SeqsUpTo(SampleLines, MaxLines)
    /\ pc = "init"
    /\ err = ""
    /\ attrs = {}
    /\ data = <<>>
    /\ rows = <<>>
    /\ mounted_on = EmptyMap
    /\ length = -1
    /\ optstr = <<>> /\ optmap = EmptyMap /\ decoded = FALSE
    /\ m = <<>> /\ enc = <<>> /\ rt = EmptyMap /\ rtdone = FALSE

Next == ParseContent \/ CallLen

Spec == Init /\ [][Next]_vars

----------------------------------------------------------------------------
(* The option-list decoder on its own: every option string of up to        *)
(* MaxOptLen characters over OptChars is decoded.                          *)

OptChars == {"a", "b", ",", "="}

Decode ==
    /\ ~decoded
    /\ optmap' = optlist_to_dict(optstr)
    /\ decoded' = TRUE
    /\ UNCHANGED optstr
    /\ UNCHANGED <<parseVars, tripVars>>

InitDecode ==
    /\ optstr \in SeqsUpTo(OptChars, MaxOptLen)
    /\ optmap = EmptyMap /\ decoded = FALSE
    /\ content = <<>> /\ pc = "init" /\ err = "" /\ attrs = {}
    /\ data = <<>> /\ rows = <<>> /\ mounted_on = EmptyMap /\ length = -1
    /\ m = <<>> /\ enc = <<>> /\ rt = EmptyMap /\ rtdone = FALSE

NextDecode == Decode

SpecDecode == InitDecode /\ [][NextDecode]_vars

----------------------------------------------------------------------------
(* The round trip of section 8: an option map is encoded, each boolean     *)
(* entry as 'key' and each other entry as 'key=value', joined with ',',    *)
(* and the text is decoded again.  The map is a sequence of entries with   *)
(* distinct keys, in the order the encoder meets them.                     *)

SampleKeys == {<<>>, <<"a">>, <<"r", "w">>, <<"a", ",">>, <<"a", "=">>, <<" ", "a">>}

SampleValues ==
    {Bool(TRUE), Bool(FALSE), Str(<<>>), Str(<<"1">>), Str(<<"x", "=", "y">>), Str(<<"1", ",", "2">>)}

EntryText(e) == IF e[2].kind = "bool" THEN e[1] ELSE e[1] \o <<"=">> \o e[2].s

Encode(entries) ==
    Join([i \in 1..Len(entries) |-> EntryText(entries[i])], <<",">>)

\* The sequences of up to MaxEntries entries with distinct keys.
OptionMaps ==
    {q \in SeqsUpTo(SampleKeys \X SampleValues, MaxEntries) :
        \A i, j \in 1..Len(q) : q[i][1] = q[j][1] => i = j}

\* The dict an entry sequence stands for.
AsDict(entries) ==
    [k \in {entries[i][1] : i \in 1..Len(entries)} |->
        entries[CHOOSE i \in 1..Len(entries) : entries[i][1] = k][2]]

RoundTrip ==
    /\ ~rtdone
    /\ enc' = Encode(m)
    /\ rt' = optlist_to_dict(Encode(m))
    /\ rtdone' = TRUE
    /\ UNCHANGED m
    /\ UNCHANGED <<parseVars, decodeVars>>

InitTrip ==
    /\ m \in OptionMaps
    /\ enc = <<>> /\ rt = EmptyMap /\ rtdone = FALSE
    /\ content = <<>> /\ pc = "init" /\ err = "" /\ attrs = {}
    /\ data = <<>> /\ rows = <<>> /\ mounted_on = EmptyMap /\ length = -1
    /\ optstr = <<>> /\ optmap = EmptyMap /\ decoded = FALSE

NextTrip == RoundTrip

SpecTrip == InitTrip /\ [][NextTrip]_vars

----------------------------------------------------------------------------
(* Properties of parse_content, stated over the input it was given.        *)

\* The data lines of the input and the raw rows the table parser makes of
\* them.
Active == get_active_lines(content)
Raw == parse_table(<<FS_HEADINGS>> \o Active)

IntColumns == {fs_freq, fs_passno}

\* A raw row whose integer columns, where present, hold integer literals.
NumericRow(raw) ==
    \A col \in IntColumns : col \in DOMAIN raw => IsIntLiteral(raw[col])

\* C1: after a successful parse the table has exactly one row per data
\* line supplied: len(fstab), len(rows) and len(data) all equal the number
\* of data lines, and rows[i] and data[i] are built from the i-th data
\* line, in input order.
C1_RowPerDataLine ==
    pc = "done" =>
        LET n == Cardinality({i \in 1..Len(content) : IsActive(content[i])})
        IN  /\ Len(rows) = n
            /\ Len(data) = n
            /\ length # -1 => length = n
            /\ \A i \in 1..n :
                   \A col \in {fs_spec, fs_file, fs_vfstype} :
                       /\ data[i][col] = Raw[i][col]
                       /\ rows[i][col] = Raw[i][col]

C1_Witness ==
    /\ pc = "done"
    /\ length = 2
    /\ Len(content) = 2
    /\ rows[1][fs_spec] # rows[2][fs_spec]

\* C2: missing trailing columns are never an error: when every data line
\* is well-formed but for the trailing columns it lacks, the call completes
\* without raising, every line has its row, and the options column of
\* every row is an option map holding the well-known options.
C2_MissingTrailingColumns ==
    (pc # "init" /\ \A i \in 1..Len(Raw) : NumericRow(Raw[i])) =>
        /\ pc = "done"
        /\ Len(data) = Len(Raw)
        /\ \A i \in 1..Len(data) :
               DOMAIN type_infos \subseteq DOMAIN data[i][fs_mntops]

\* The base-10 value of an integer literal, digit by digit.
RECURSIVE PlaceSum(_, _)
PlaceSum(body, k) ==
    IF k > Len(body) THEN 0
    ELSE DigitValue(body[k]) * 10 ^ (Len(body) - k) + PlaceSum(body, k + 1)

DecimalValue(s) ==
    IF s[1] = "-" THEN 0 - PlaceSum(Tail(s), 1)
    ELSE IF s[1] = "+" THEN PlaceSum(Tail(s), 1)
    ELSE PlaceSum(s, 1)

\* C3: after a successful parse fs_freq and fs_passno exist in every row
\* and are integers: 0 when the data line ends before the column, the
\* base-10 value of the column's text when the column is present.
C3_IntegerColumns ==
    pc = "done" =>
        \A i \in 1..Len(data) : \A col \in IntColumns :
            /\ col \in DOMAIN data[i]
            /\ data[i][col] \in Int
            /\ rows[i][col] = data[i][col]
            /\ col \notin DOMAIN Raw[i] => data[i][col] = 0
            /\ col \in DOMAIN Raw[i] => data[i][col] = DecimalValue(Raw[i][col])

C3_Witness ==
    /\ pc = "done"
    /\ \E i \in 1..Len(data) :
           /\ fs_passno \notin DOMAIN Raw[i]
           /\ data[i][fs_passno] = 0
           /\ fs_freq \in DOMAIN Raw[i]
           /\ Raw[i][fs_freq] = <<"1", "2">>
           /\ data[i][fs_freq] = 12
    /\ \E i \in 1..Len(data) : data[i][fs_passno] = -1

\* The tokens of an option string.
OptTokens(s) ==
    IF s = <<>> THEN {}
    ELSE {Strip(Split(s, ",")[i]) : i \in 1..Len(Split(s, ","))}

\* C4: in every row's option map each well-known option is present with a
\* boolean value: true if the option is a token of the source option
\* string, false otherwise, whatever the string (empty, or naming the
\* option as key=value).
C4_WellKnownFlagsBoolean ==
    pc = "done" =>
        \A i \in 1..Len(data) : \A flag \in DOMAIN type_infos :
            /\ flag \in DOMAIN data[i][fs_mntops]
            /\ data[i][fs_mntops][flag].kind = "bool"
            /\ data[i][fs_mntops][flag].b = (flag \in OptTokens(Raw[i][fs_mntops]))

\* C5: mounted_on is the last-wins index of the rows: a key is found iff
\* some row has it as fs_file, and it then leads to the last such row,
\* one of the entries of rows.
C5_MountPointIndex ==
    pc = "done" =>
        \A k \in DOMAIN mounted_on \cup {Raw[i][fs_file] : i \in 1..Len(Raw)}
                   \cup {<<"/", "m">>, <<"/", "n">>, <<"s", "w", "a", "p">>} :
            LET owners == {i \in 1..Len(rows) : rows[i][fs_file] = k}
            IN  /\ k \notin DOMAIN mounted_on <=> owners = {}
                /\ owners # {} =>
                       /\ mounted_on[k] \in owners
                       /\ \A i \in owners : i <= mounted_on[k]

C5_Witness ==
    /\ pc = "done"
    /\ \E i, j \in 1..Len(rows) :
           /\ i < j
           /\ rows[i][fs_file] = rows[j][fs_file]
           /\ rows[i][fs_spec] # rows[j][fs_spec]
           /\ mounted_on[rows[i][fs_file]] = j

\* The whitespace-separated tokens of a line.
Tokens(line) ==
    LET starts == SortedSeq(TokenStarts(line))
    IN  [n \in 1..Len(starts) |->
            SubSeq(line, starts[n], TokenEnd(line, starts[n]))]

SixTokens(line) ==
    /\ Len(Tokens(line)) = 6
    /\ IsIntLiteral(Tokens(line)[5])
    /\ IsIntLiteral(Tokens(line)[6])

\* C6: a data line made of six whitespace-separated tokens is parsed into
\* a row whose fs_spec, fs_file, fs_vfstype, fs_mntops, fs_freq and
\* fs_passno are its first to sixth token, whatever its spacing: a content
\* of such lines parses, and in every parsed table the row of such a line
\* holds its tokens.
C6_SixTokensAreTheColumns ==
    pc # "init" =>
        /\ (\A i \in 1..Len(Active) : SixTokens(Active[i])) => pc = "done"
        /\ pc = "done" =>
               \A i \in 1..Len(Active) :
                   SixTokens(Active[i]) =>
                       LET t == Tokens(Active[i])
                       IN  /\ rows[i][fs_spec] = t[1]
                           /\ rows[i][fs_file] = t[2]
                           /\ rows[i][fs_vfstype] = t[3]
                           /\ data[i][fs_mntops] =
                                  MergeDefaults(optlist_to_dict(t[4]))
                           /\ rows[i][fs_freq] = DecimalValue(t[5])
                           /\ rows[i][fs_passno] = DecimalValue(t[6])

\* C7: parsing fails atomically: when some data line holds a non-numeric
\* fs_freq or fs_passno the call fails with the malformed-field error
\* (ValueError) and none of data, rows and mounted_on is set.
C7_MalformedFieldIsAtomic ==
    (pc # "init" /\ \E i \in 1..Len(Raw) : ~NumericRow(Raw[i])) =>
        /\ pc = "raised"
        /\ err = "ValueError"
        /\ attrs = {}

----------------------------------------------------------------------------
(* Properties of the option-list decoder.                                  *)

\* The comma-separated tokens of the decoded string, in order.
OptSeq == IF optstr = <<>> THEN <<>> ELSE Split(optstr, ",")

\* Token t maps key k to value v: t is k, '=' and the text of v with no
\* '=' in k, or t holds no '=', k is t and v is True.
Maps(t, k, v) ==
    \/ /\ \A p \in 1..Len(t) : t[p] # "="
       /\ k = t
       /\ v = Bool(TRUE)
    \/ /\ v.kind = "str"
       /\ t = k \o <<"=">> \o v.s
       /\ \A p \in 1..Len(k) : k[p] # "="

\* The key of token t: the text before its first '=', t itself if it
\* holds none.
TokenKey(t) ==
    CHOOSE k \in {SubSeq(t, 1, p) : p \in 0..Len(t)} :
        \E v \in {Bool(TRUE), Str(SubSeq(t, Len(k) + 2, Len(t)))} : Maps(t, k, v)

\* C8: the decoder maps each comma-separated token by splitting
\* 'key=value' at its first '=' only and mapping a bare 'key' to true; a
\* key that occurs in several tokens takes the value of its last token.
C8_DecoderPerToken ==
    decoded =>
        /\ DOMAIN optmap = {TokenKey(OptSeq[i]) : i \in 1..Len(OptSeq)}
        /\ \A i \in 1..Len(OptSeq) :
               (\A j \in (i + 1)..Len(OptSeq) :
                    TokenKey(OptSeq[j]) # TokenKey(OptSeq[i]))
               => Maps(OptSeq[i], TokenKey(OptSeq[i]), optmap[TokenKey(OptSeq[i])])

C8_Witness ==
    /\ decoded
    /\ optstr = <<"a", "=", "=", ",", "a">>
    /\ optmap = (<<"a">> :> Bool(TRUE))

\* An option map the encoding can carry: every boolean entry is true, no
\* key holds ',' or '=', no text value holds ',', no entry's text begins or
\* ends with whitespace, and the map is not the single entry '' -> true
\* (whose text is the empty string).
Encodable(entries) ==
    /\ \A i \in 1..Len(entries) :
           LET k == entries[i][1]
               v == entries[i][2]
           IN  /\ v.kind = "bool" => v.b
               /\ \A p \in 1..Len(k) : k[p] \notin {",", "="}
               /\ \A p \in 1..Len(v.s) : v.s[p] # ","
               /\ Strip(EntryText(entries[i])) = EntryText(entries[i])
    /\ entries # << <<(<<>>), Bool(TRUE)>> >>

\* C9 as stated: decoding the encoded text of any option map without
\* duplicate keys yields the map again.
C9_RoundTripAnyMap == rtdone => rt = AsDict(m)

\* C9 as amended: decoding the encoded text of an option map without
\* duplicate keys yields the map again when the encoding can carry it.
C9_RoundTripEncodable == (rtdone /\ Encodable(m)) => rt = AsDict(m)

C9_Witness ==
    /\ rtdone
    /\ Encodable(m)
    /\ Len(m) = 2
    /\ \E i \in 1..Len(m) : m[i][2] = Str(<<"x", "=", "y">>)
    /\ \E i \in 1..Len(m) : m[i][2] = Bool(TRUE)
    /\ rt = AsDict(m)

=============================================================================
